---- MODULE Spec2Model ----
(***************************************************************************)
(* Tip generation and verification pipeline of the forging backend         *)
(* (CS2): round detection, demo filtering, the deterministic rounds        *)
(* timeline, Observer parsing, the alive-time pre-filter and Validator     *)
(* parsing.                                                                *)
(*                                                                         *)
(* Times.  The timeline builder computes seconds as (tick - start)/tickrate *)
(* in floating point.  The model keeps every such value as the exact       *)
(* rational n/TickRate and stores the numerator n, so a window field       *)
(* "start_seconds = 3" with TickRate = 2 stands for 1.5 s.  Tip timestamps *)
(* are whole seconds (pydantic int), compared as t * TickRate.             *)
(***************************************************************************)
EXTENDS Integers, Sequences, FiniteSets, TLC

\* ---------------------------------------------------------------- bounds
MaxRounds == 2
MaxTick == 4
MaxKills == 2
TickRate == 2
MaxTips == 2
MaxSec == 3

\* Python's None for optional non-negative numbers (ticks, seconds, round
\* numbers are never negative in the program).
None == -1

Names == {"POV", "pov", "other"}

\* str.lower() on the names of the model
Lower(s) == IF s = "POV" THEN "pov" ELSE s

\* `x or 0`
OrZero(x) == IF x = None THEN 0 ELSE x

\* max(0.0, x)
Max0(x) == IF x < 0 THEN 0 ELSE x

Min(S) == CHOOSE x \in S : \A y \in S : x <= y

\* f"{int(s // 60)}:{int(s % 60):02d}" of a time kept as numerator n
NoDisplay == [m |-> None, ss |-> None]
Display(n) == [m |-> (n \div TickRate) \div 60, ss |-> (n \div TickRate) % 60]

NoVideoRounds == [set |-> FALSE, first_round |-> None, last_round |-> None, total |-> 0]

\* ------------------------------------------------------------ the dataset
\* Rounds as the demo parser emits them: start < end <= official_end, and a
\* round starts no earlier than the previous one officially ended.
RECURSIVE RoundSeqs(_, _)
RoundSeqs(k, from) ==
  IF k = 0 THEN {<<>>}
  ELSE {<<>>} \cup
       UNION { { <<[start_tick |-> s, end_tick |-> e, official_end_tick |-> o]>> \o rest :
                   rest \in RoundSeqs(k - 1, o) } :
               <<s, e, o>> \in { t \in (from..MaxTick) \X (from..MaxTick) \X (from..MaxTick) :
                                   t[1] < t[2] /\ t[2] <= t[3] } }

Numbered(rs) == [i \in 1..Len(rs) |->
                   [round_num |-> i, start_tick |-> rs[i].start_tick,
                    end_tick |-> rs[i].end_tick,
                    official_end_tick |-> rs[i].official_end_tick]]

\* A kill belongs to the round whose [start, official_end] holds its tick;
\* the parser writes tick 0 for a kill row that has no tick.
KillsOf(rounds) ==
  { [victim |-> v, round_num |-> rounds[i].round_num, tick |-> t] :
      v \in {"POV", "other"}, i \in DOMAIN rounds, t \in 0..MaxTick }

KillChoices(rounds) ==
  { k \in KillsOf(rounds) :
      \E i \in DOMAIN rounds : /\ rounds[i].round_num = k.round_num
                               /\ \/ k.tick = 0
                                  \/ /\ rounds[i].start_tick <= k.tick
                                     /\ k.tick <= rounds[i].official_end_tick }

RECURSIVE KillSeqs(_, _)
KillSeqs(rounds, k) ==
  IF k = 0 THEN {<<>>}
  ELSE {<<>>} \cup { <<x>> \o rest : x \in KillChoices(rounds), rest \in KillSeqs(rounds, k - 1) }

MkDataset(rounds, kills, pov) ==
  [rounds |-> rounds, kills |-> kills, pov_player |-> pov,
   summary |-> [tickrate |-> TickRate, rounds_played |-> Len(rounds),
                video_rounds |-> NoVideoRounds],
   video_rounds |-> NoVideoRounds,
   video_start_tick |-> None,
   has_timeline |-> FALSE,
   rounds_timeline_demo |-> <<>>]

\* the datasets with at most max_kills kills
Datasets(max_kills) ==
  UNION { { MkDataset(Numbered(rs), ks, p) : ks \in KillSeqs(Numbered(rs), max_kills),
                                             p \in {"pov", ""} } :
          rs \in RoundSeqs(MaxRounds, 0) }

\* ------------------------------------------------- round_detector.py
InRange(x, first_round, last_round) ==
  first_round <= x.round_num /\ x.round_num <= last_round

filter_demo_data_by_rounds(demo_data, first_round_in, last_round_in) ==
  IF first_round_in = None /\ last_round_in = None THEN demo_data
  ELSE
    LET first_round == IF first_round_in = None THEN 1 ELSE first_round_in
        last_round == IF last_round_in = None THEN 999 ELSE last_round_in
        Keep(x) == InRange(x, first_round, last_round)
        filtered_rounds == SelectSeq(demo_data.rounds, Keep)
        filtered_kills == SelectSeq(demo_data.kills, Keep)
        video_rounds == [set |-> TRUE, first_round |-> first_round,
                         last_round |-> last_round,
                         total |-> Len(filtered_rounds)]
    IN [demo_data EXCEPT
          !.rounds = filtered_rounds,
          !.kills = filtered_kills,
          !.video_rounds = video_rounds,
          !.video_start_tick = IF Len(filtered_rounds) > 0
                               THEN filtered_rounds[1].start_tick ELSE None,
          !.summary = [@ EXCEPT !.video_rounds = video_rounds,
                                !.rounds_played = Len(filtered_rounds)]]

\* death_by_round: round_num -> tick of the first kill whose victim is the
\* POV player (None when the round has no entry)
DeathByRound(kills, pov_player, round_num) ==
  LET hits == { i \in DOMAIN kills : /\ Lower(kills[i].victim) = Lower(pov_player)
                                     /\ kills[i].round_num = round_num }
  IN IF pov_player = "" \/ hits = {} THEN None ELSE kills[Min(hits)].tick

TimelineEntry(rnd, video_start_tick, death_tick) ==
  LET start_seconds == Max0(OrZero(rnd.start_tick) - video_start_tick)
      end_seconds == Max0(OrZero(rnd.end_tick) - video_start_tick)
      died == death_tick # None /\ death_tick # 0
      death_seconds == IF died THEN Max0(death_tick - video_start_tick) ELSE None
  IN [round |-> rnd.round_num,
      start_seconds |-> start_seconds, start_time |-> Display(start_seconds),
      end_seconds |-> end_seconds, end_time |-> Display(end_seconds),
      death_seconds |-> death_seconds,
      death_time |-> IF died THEN Display(death_seconds) ELSE NoDisplay]

build_rounds_timeline_from_demo(demo_data, pov_player_in) ==
  LET rounds == demo_data.rounds
      pov_player == IF pov_player_in = "" THEN demo_data.pov_player ELSE pov_player_in
  IN IF Len(rounds) = 0 THEN <<>>
     ELSE LET video_start_tick == IF demo_data.video_start_tick = None
                                  THEN OrZero(rounds[1].start_tick)
                                  ELSE demo_data.video_start_tick
          IN [i \in 1..Len(rounds) |->
                TimelineEntry(rounds[i], video_start_tick,
                              DeathByRound(demo_data.kills, pov_player, rounds[i].round_num))]

\* ------------------------------------------------- agents/base.py
\* A model response, described by what _extract_json's two regular
\* expressions find in the text and what json.loads makes of each find:
\*   fence : "none" no ``` block, "bad" block whose body is not JSON,
\*           "ok" block whose body parses (to any JSON value)
\*   brace : the same for the span from the first "{" to the last "}"
\*   value : the JSON value of whichever parse succeeds first
\* A JSON value is [kind, obj]; obj carries the fields of an object.
FalsyKinds == {"null", "empty_list", "empty_obj"}
ScalarKinds == {"null", "empty_list", "list", "int", "str"}
NoObj == [fields |-> "none"]
JNone == [kind |-> "null", obj |-> NoObj]

_extract_json(text) ==
  IF text.fence = "ok" THEN text.value
  ELSE IF text.brace = "ok" THEN text.value
  ELSE JNone

\* `if not data`
NotData(data) == data.kind \in FalsyKinds

\* `for tip in data.get(key, [])`: what the loop iterates over.
\*   absent -> the default [];  null / number -> TypeError (not iterable);
\*   string / dict -> iterates characters / keys, none of which has .get
Iterates(field) == field.kind \notin {"null", "int"}
LoopItems(field) ==
  IF field.kind = "list" THEN field.items ELSE <<>>

\* ------------------------------------------------- cs2/contracts.py
\* CS2VerifiedTip.confidence and CS2RemovedTip.confidence: Field(ge=1, le=10)
ConfidenceMin == 1
ConfidenceMax == 10
ConfidenceField(c) == ConfidenceMin <= c /\ c <= ConfidenceMax

\* CS2RemovedTip(id=..., reason=..., confidence=...): pydantic validates the
\* fields on construction and raises ValidationError when one fails.
CS2RemovedTip(id, reason, confidence) ==
  [ok |-> ConfidenceField(confidence),
   tip |-> [id |-> id, reason |-> reason, confidence |-> confidence]]

\* CS2VerifiedTip(...)
CS2VerifiedTip(id, timestamp, confidence) ==
  [ok |-> ConfidenceField(confidence),
   tip |-> [id |-> id, timestamp |-> timestamp, confidence |-> confidence]]

\* ------------------------------------------------- cs2/observer.py
\* key of tips.sort: t.timestamp.video_seconds if t.timestamp else 0
SortKey(tip) == IF tip.timestamp = None THEN 0 ELSE tip.timestamp

\* list.sort is stable: insert each tip after the last one whose key is <=
RECURSIVE InsertSorted(_, _)
InsertSorted(sorted, tip) ==
  IF sorted = <<>> THEN <<tip>>
  ELSE IF SortKey(sorted[Len(sorted)]) <= SortKey(tip) THEN Append(sorted, tip)
  ELSE Append(InsertSorted(SubSeq(sorted, 1, Len(sorted) - 1), tip), sorted[Len(sorted)])

RECURSIVE SortTips(_)
SortTips(tips) ==
  IF tips = <<>> THEN <<>>
  ELSE InsertSorted(SortTips(SubSeq(tips, 1, Len(tips) - 1)), tips[Len(tips)])

\* the loop of parse_response: an item that is not an object, or whose
\* fields fail validation, raises inside the try and is skipped
RECURSIVE ObserverTipsLoop(_, _, _)
ObserverTipsLoop(items, i, tips) ==
  IF i > Len(items) THEN tips
  ELSE LET item == items[i]
           id == IF item.id = None THEN Len(tips) + 1 ELSE item.id
       IN IF item.kind = "object" /\ item.valid
          THEN ObserverTipsLoop(items, i + 1,
                                Append(tips, [id |-> id, timestamp |-> item.video_seconds]))
          ELSE ObserverTipsLoop(items, i + 1, tips)

\* variant of parse_response: the tips are returned in the order of the response
parse_response_unsorted(response_text) ==
  LET data == _extract_json(response_text)
  IN IF NotData(data) THEN [raised |-> "", tips |-> <<>>]
     ELSE IF data.kind # "object" THEN [raised |-> "AttributeError", tips |-> <<>>]
     ELSE IF ~Iterates(data.obj.tips) THEN [raised |-> "TypeError", tips |-> <<>>]
     ELSE [raised |-> "", tips |-> ObserverTipsLoop(LoopItems(data.obj.tips), 1, <<>>)]

parse_response(response_text) ==
  LET data == _extract_json(response_text)
  IN IF NotData(data) THEN [raised |-> "", tips |-> <<>>]
     ELSE IF data.kind # "object" THEN [raised |-> "AttributeError", tips |-> <<>>]
     ELSE IF ~Iterates(data.obj.tips) THEN [raised |-> "TypeError", tips |-> <<>>]
     ELSE [raised |-> "",
           tips |-> SortTips(ObserverTipsLoop(LoopItems(data.obj.tips), 1, <<>>))]

\* ------------------------------------------------- cs2/validator.py
PreFilterConfidence == 0

\* end of the valid window: death time if died, else round end
Bound(r) == IF r.death_seconds # None THEN r.death_seconds ELSE r.end_seconds

InAliveWindow(r, t) == r.start_seconds <= t * TickRate /\ t * TickRate <= Bound(r)
InRound(r, t) == r.start_seconds <= t * TickRate /\ t * TickRate <= r.end_seconds

\* round_info of the rejection reason: the first round whose
\* [start_seconds, end_seconds] holds the timestamp, named when it has a death
NoRoundInfo == [round |-> None, death_time |-> NoDisplay]
RoundInfo(rounds_timeline, t) ==
  LET holds == { i \in DOMAIN rounds_timeline : InRound(rounds_timeline[i], t) }
  IN IF holds = {} THEN NoRoundInfo
     ELSE LET r == rounds_timeline[Min(holds)]
          IN IF r.death_seconds # None
             THEN [round |-> r.round, death_time |-> r.death_time]
             ELSE NoRoundInfo

RECURSIVE PreFilterLoop(_, _, _, _, _)
PreFilterLoop(tips, i, rounds_timeline, valid_tips_acc, removed_tips_acc) ==
  IF i > Len(tips)
  THEN [raised |-> "", valid_tips |-> valid_tips_acc, removed_tips |-> removed_tips_acc]
  ELSE LET tip == tips[i]
           is_valid == \E j \in DOMAIN rounds_timeline :
                          InAliveWindow(rounds_timeline[j], tip.timestamp)
           removed == CS2RemovedTip(tip.id, RoundInfo(rounds_timeline, tip.timestamp),
                                    PreFilterConfidence)
       IN IF tip.timestamp = None \/ is_valid
          THEN PreFilterLoop(tips, i + 1, rounds_timeline,
                             Append(valid_tips_acc, tip), removed_tips_acc)
          ELSE IF ~removed.ok
          THEN [raised |-> "ValidationError", valid_tips |-> <<>>, removed_tips |-> <<>>]
          ELSE PreFilterLoop(tips, i + 1, rounds_timeline,
                             valid_tips_acc, Append(removed_tips_acc, removed.tip))

_pre_filter_by_alive_time(tips, rounds_timeline) ==
  IF rounds_timeline = <<>>
  THEN [raised |-> "", valid_tips |-> tips, removed_tips |-> <<>>]
  ELSE PreFilterLoop(tips, 1, rounds_timeline, <<>>, <<>>)

\* CS2ValidatorOutput.summary_text: "100-300 char summary for TTS"
DocumentedSummaryMin == 100
DocumentedSummaryMax == 300

\* _parse_verification_response
SummaryMin == 50
SummaryMax == 400
FallbackSummaryLen == 38
DefaultSummaryLen == 62
AbsentSummaryLen == 18

RECURSIVE VerifiedTipsLoop(_, _, _)
VerifiedTipsLoop(items, i, verified_tips_acc) ==
  IF i > Len(items) THEN verified_tips_acc
  ELSE LET item == items[i]
           id == IF item.id = None THEN Len(verified_tips_acc) + 1 ELSE item.id
           confidence == IF item.confidence = None THEN 8 ELSE item.confidence
           made == CS2VerifiedTip(id, item.video_seconds, confidence)
       IN IF item.kind = "object" /\ item.valid /\ made.ok
          THEN VerifiedTipsLoop(items, i + 1, Append(verified_tips_acc, made.tip))
          ELSE VerifiedTipsLoop(items, i + 1, verified_tips_acc)

RECURSIVE RemovedTipsLoop(_, _, _)
RemovedTipsLoop(items, i, removed_tips_acc) ==
  IF i > Len(items) THEN removed_tips_acc
  ELSE LET item == items[i]
           confidence == IF item.confidence = None THEN 1 ELSE item.confidence
           made == CS2RemovedTip(item.id, NoRoundInfo, confidence)
       IN IF item.kind = "object" /\ item.valid /\ made.ok
          THEN RemovedTipsLoop(items, i + 1, Append(removed_tips_acc, made.tip))
          ELSE RemovedTipsLoop(items, i + 1, removed_tips_acc)

\* summary_text = data.get("summary_text", "Analysis complete.") and the
\* length validation; a summary is kept as [len, src]
SummaryRaises(field) ==
  IF field.kind \in {"null", "int"} THEN "TypeError"      \* len() of None / int
  ELSE IF field.kind = "list" /\ field.len > SummaryMax THEN "TypeError"  \* list + "..."
  ELSE IF field.kind = "list" /\ field.len >= SummaryMin THEN "ValidationError"  \* not a str
  ELSE ""
SummaryOf(field) ==
  LET n == IF field.kind = "absent" THEN AbsentSummaryLen ELSE field.len
  IN IF n < SummaryMin THEN [len |-> DefaultSummaryLen, src |-> "default"]
     ELSE IF n > SummaryMax THEN [len |-> 397 + 3, src |-> "truncated"]
     ELSE [len |-> n, src |-> "model"]

NoSummary == [len |-> 0, src |-> "none"]

_parse_verification_response(response_text) ==
  LET data == _extract_json(response_text)
      failed(e) == [raised |-> e, verified_tips |-> <<>>, removed_tips |-> <<>>,
                    summary_text |-> NoSummary]
  IN IF NotData(data)
     THEN [raised |-> "", verified_tips |-> <<>>, removed_tips |-> <<>>,
           summary_text |-> [len |-> FallbackSummaryLen, src |-> "fallback"]]
     ELSE IF data.kind # "object" THEN failed("AttributeError")
     ELSE IF ~Iterates(data.obj.verified_tips) THEN failed("TypeError")
     ELSE IF ~Iterates(data.obj.removed_tips) THEN failed("TypeError")
     ELSE IF SummaryRaises(data.obj.summary_text) # ""
     THEN failed(SummaryRaises(data.obj.summary_text))
     ELSE [raised |-> "",
           verified_tips |-> VerifiedTipsLoop(LoopItems(data.obj.verified_tips), 1, <<>>),
           removed_tips |-> RemovedTipsLoop(LoopItems(data.obj.removed_tips), 1, <<>>),
           summary_text |-> SummaryOf(data.obj.summary_text)]

\* ------------------------------------------------- model responses
SeqsUpTo(S, n) == UNION { [1..k -> S] : k \in 0..n }

Seconds == {None} \cup 0..MaxSec
TipIds == {None, 1, 2}

ScalarItem == [kind |-> "scalar", valid |-> FALSE, id |-> None,
               video_seconds |-> None, confidence |-> None]
ObserverItems ==
  {ScalarItem} \cup
  { [kind |-> "object", valid |-> v, id |-> i, video_seconds |-> t, confidence |-> None] :
      v \in BOOLEAN, i \in TipIds, t \in Seconds }

Confidences == {None, 0, 7, 8, 10, 11}
ValidatorItems ==
  {ScalarItem} \cup
  { [kind |-> "object", valid |-> TRUE, id |-> i, video_seconds |-> t, confidence |-> c] :
      i \in {1}, t \in Seconds, c \in Confidences }

ListField(items) == [kind |-> "list", items |-> items]
OtherFields == { [kind |-> k, items |-> <<>>] : k \in {"absent", "null", "int", "str"} }
Fields(Items, n) == OtherFields \cup { ListField(is) : is \in SeqsUpTo(Items, n) }

SummaryLens == {0, 49, 50, 100, 300, 400, 401}
SummaryFields ==
  { [kind |-> k, len |-> 0] : k \in {"absent", "null", "int"} } \cup
  { [kind |-> k, len |-> n] : k \in {"str", "list"}, n \in SummaryLens }

ScalarValues == { [kind |-> k, obj |-> NoObj] : k \in ScalarKinds \cup {"empty_obj"} }
ObjectValue(obj) == [kind |-> "object", obj |-> obj]

\* every text with the given object values: the value sits in a ``` block,
\* or bare between prose; plus the texts that hold no JSON object at all
Texts(objects) ==
  { [fence |-> "ok", brace |-> "none", value |-> v] : v \in ScalarValues \cup objects } \cup
  { [fence |-> f, brace |-> "ok", value |-> v] :
      f \in {"none", "bad"}, v \in objects \cup {[kind |-> "empty_obj", obj |-> NoObj]} } \cup
  { [fence |-> f, brace |-> b, value |-> JNone] : f \in {"none", "bad"}, b \in {"none", "bad"} }

NoText == [fence |-> "none", brace |-> "none", value |-> JNone]

ObserverObjects == { ObjectValue([tips |-> f]) : f \in Fields(ObserverItems, MaxTips) }
ObserverResponses == Texts(ObserverObjects)

ValidatorObjects ==
  { ObjectValue([verified_tips |-> v, removed_tips |-> r, summary_text |-> s]) :
      v \in Fields(ValidatorItems, 1),
      r \in OtherFields \cup {ListField(<<>>),
                              ListField(<<[ScalarItem EXCEPT !.kind = "object", !.valid = TRUE,
                                                              !.id = 1, !.confidence = 3]>>)},
      s \in SummaryFields }
ValidatorResponses == Texts(ValidatorObjects)

\* the responses the whole-pipeline specification draws from
PipelineObserverResponses ==
  { [fence |-> "none", brace |-> "ok",
     value |-> ObjectValue([tips |-> ListField(is)])] :
      is \in SeqsUpTo({ i \in ObserverItems : i.kind = "object" /\ i.valid /\ i.id = None },
                      MaxTips) } \cup {NoText}

PipelineValidatorResponses ==
  { [fence |-> "none", brace |-> "ok",
     value |-> ObjectValue([verified_tips |-> ListField(is),
                            removed_tips |-> ListField(<<>>),
                            summary_text |-> [kind |-> "str", len |-> 100]])] :
      is \in SeqsUpTo({ i \in ValidatorItems : i.kind = "object" /\ i.confidence \in {7, 10}
                                              /\ i.video_seconds # None }, 1) } \cup {NoText}

\* Validator responses that list two verified tips, in either order of time
TwoTipValidatorResponses ==
  { [fence |-> "none", brace |-> "ok",
     value |-> ObjectValue([verified_tips |-> ListField(<<a, b>>),
                            removed_tips |-> ListField(<<>>),
                            summary_text |-> [kind |-> "str", len |-> 100]])] :
      a, b \in { [kind |-> "object", valid |-> TRUE, id |-> i, video_seconds |-> t,
                  confidence |-> 10] : i \in {1, 2}, t \in 0..MaxSec } }

RoundInfos ==
  { [first_round |-> f, last_round |-> l, detected |-> (f # None \/ l # None)] :
      f \in {None} \cup 1..(MaxRounds + 1), l \in {None} \cup 1..(MaxRounds + 1) }

\* ------------------------------------------------- llm/gemini.py
MaxKeys == 3
MaxNow == 3
MaxCalls == 2
MaxAnalyses == 2

\* KEY_COOLDOWN_SECONDS = 86400; the clock counts half days
KEY_COOLDOWN_SECONDS == 2

\* GeminiProvider.__init__: n keys from the environment (an index stands for
\* its key), no cooldown entry, nothing configured
GeminiProvider(n, enabled) ==
  [api_keys |-> [i \in 1..n |-> i],
   _current_key_index |-> 0,
   _key_cooldowns |-> [i \in 0..(n - 1) |-> 0],
   _configured_key |-> None,
   enabled |-> enabled]

\* now >= self._key_cooldowns.get(idx, 0) is false
Cooling(p, idx, t) == t < p._key_cooldowns[idx]

\* variants of _get_current_api_key: one falls back to the current key when
\* every key is cooling, one searches from the first key of the pool
_get_current_api_key_fallback(p, t) ==
  LET n == Len(p.api_keys)
      free == { i \in 0..(n - 1) : ~Cooling(p, (p._current_key_index + i) % n, t) }
  IN IF n = 0 THEN [key |-> None, p |-> p]
     ELSE IF free = {} THEN [key |-> p._current_key_index, p |-> p]
     ELSE LET idx == (p._current_key_index + Min(free)) % n
          IN [key |-> idx, p |-> [p EXCEPT !._current_key_index = idx]]

_get_current_api_key_from_start(p, t) ==
  LET n == Len(p.api_keys)
      free == { i \in 0..(n - 1) : ~Cooling(p, i, t) }
  IN IF n = 0 \/ free = {} THEN [key |-> None, p |-> p]
     ELSE [key |-> Min(free), p |-> [p EXCEPT !._current_key_index = Min(free)]]

\* returns the key found (None when there is none) and the provider with
\* _current_key_index moved to it
_get_current_api_key(p, t) ==
  LET n == Len(p.api_keys)
      free == { i \in 0..(n - 1) : ~Cooling(p, (p._current_key_index + i) % n, t) }
  IN IF n = 0 \/ free = {} THEN [key |-> None, p |-> p]
     ELSE LET idx == (p._current_key_index + Min(free)) % n
          IN [key |-> idx, p |-> [p EXCEPT !._current_key_index = idx]]

is_available(p, t) ==
  LET r == _get_current_api_key(p, t)
  IN [available |-> r.key # None /\ p.enabled, p |-> r.p]

\* variant of _rotate_key_on_rate_limit: when no other key is free it empties
\* the cooldown table
_rotate_key_on_rate_limit_clearing(p, t) ==
  IF Len(p.api_keys) <= 1 THEN [rotated |-> FALSE, p |-> p]
  ELSE LET old_index == p._current_key_index
           marked == [p EXCEPT !._key_cooldowns[old_index] = t + KEY_COOLDOWN_SECONDS]
           r == _get_current_api_key(marked, t)
       IN IF r.key # None /\ r.p._current_key_index # old_index
          THEN [rotated |-> TRUE, p |-> [r.p EXCEPT !._configured_key = None]]
          ELSE [rotated |-> FALSE,
                p |-> [r.p EXCEPT !._key_cooldowns = [i \in DOMAIN @ |-> 0]]]

_rotate_key_on_rate_limit(p, t) ==
  IF Len(p.api_keys) <= 1 THEN [rotated |-> FALSE, p |-> p]
  ELSE LET old_index == p._current_key_index
           marked == [p EXCEPT !._key_cooldowns[old_index] = t + KEY_COOLDOWN_SECONDS]
           r == _get_current_api_key(marked, t)
       IN IF r.key # None /\ r.p._current_key_index # old_index
          THEN [rotated |-> TRUE, p |-> [r.p EXCEPT !._configured_key = None]]
          ELSE [rotated |-> FALSE, p |-> r.p]

\* an endpoint error is told apart by the words of its message
_is_rate_limit_error(signal) == signal = "rate_limit"
is_file_permission(signal) == signal = "file_permission"

\* raises ValueError when no key is free, else configures the current key
_get_client(p, t) ==
  LET r == _get_current_api_key(p, t)
  IN IF r.key = None THEN [raised |-> TRUE, p |-> r.p]
     ELSE [raised |-> FALSE, p |-> [r.p EXCEPT !._configured_key = r.key]]

\* for key_attempt in range(max_key_attempts): another iteration follows
AttemptsLeftAlways(p, attempt) == TRUE
AttemptsLeft(p, attempt) == attempt + 1 < Len(p.api_keys)

\* what the endpoint answers to one attempt: genai.get_file fails, or the
\* file is found and generate_content answers
Replies ==
  { [stage |-> "get_file", signal |-> s] : s \in {"rate_limit", "file_permission", "other"} } \cup
  { [stage |-> "generate_content", signal |-> s] :
      s \in {"ok", "rate_limit", "file_permission", "other"} }

\* VideoAnalysisResult: success is `error is None`
NoOutcome == [success |-> FALSE, error |-> "none"]
VideoAnalysisResult(error) == [success |-> error = "", error |-> error]

\* ------------------------------------------------------------- state
VARIABLES
  pc,                    \* where CS2Pipeline.analyze stands
  replay_data,           \* the caller's dataset (self.replay_data)
  filtered_replay_data,  \* the dataset the agents are given
  round_info,            \* result of detect_video_rounds
  demo_rounds_timeline,  \* the demo-built rounds timeline
  observer_response,     \* raw Observer response
  observer_output,       \* CS2ObserverOutput.tips
  valid_tips,            \* pre-filter: tips passed to the Validator
  pre_removed_tips,      \* pre-filter: rejected tips
  validator_response,    \* raw Validator response
  final_output,          \* CS2PipelineOutput returned by verify
  result,                \* PipelineOutput returned by analyze
  error,                 \* exception that left analyze: its type and the stage
  stage_log,             \* the stages analyze has run, in order
  gemini,                \* the GeminiProvider instance serving requests
  now,                   \* time.time(), in units of half a day
  gw_pc,                 \* where GeminiProvider.analyze_video stands
  key_attempt,           \* loop variable of analyze_video
  video_path,            \* analyze_video was given a video_path
  sent,                  \* requests the current analyze_video call has sent
  outcome,               \* VideoAnalysisResult of the last analyze_video call
  calls,                 \* analyze_video calls made so far
  analyses,              \* video_analyzer.analyze_video requests served so far
  records,               \* Firestore: the analysis records (status, error)
  tasks,                 \* the run_analysis_background tasks of the event loop
  holder,                \* the task whose coroutine occupies the event loop, or 0
  aoe2_replay_data,      \* the parsed AoE2 replay given to the AoE2 agents
  aoe2_prompt,           \* the event times the AoE2 prompt context shows
  round_timeline         \* the round timeline the CS2 prompt context shows

pipelineVars == <<pc, replay_data, filtered_replay_data, round_info, demo_rounds_timeline,
                  observer_response, observer_output, valid_tips, pre_removed_tips,
                  validator_response, final_output, result, error, stage_log>>
gatewayVars == <<gemini, now, gw_pc, key_attempt, video_path, sent, outcome, calls,
                 analyses>>
serviceVars == <<records, tasks, holder>>
aoe2Vars == <<aoe2_replay_data, aoe2_prompt>>
cs2PromptVars == <<round_timeline>>
vars == <<pipelineVars, gatewayVars, serviceVars, aoe2Vars, cs2PromptVars>>

NoRoundInfoYet == [first_round |-> None, last_round |-> None, detected |-> FALSE]
NoError == [type |-> "", at |-> ""]
NoOutput == [set |-> FALSE, tips |-> <<>>, removed_tips |-> <<>>, summary_text |-> NoSummary]

\* a provider that has served nothing yet, at the start of the clock
GatewayInit(n, enabled) ==
  /\ gemini = GeminiProvider(n, enabled)
  /\ now = 1
  /\ gw_pc = "idle"
  /\ key_attempt = 0
  /\ video_path = FALSE
  /\ sent = <<>>
  /\ outcome = NoOutcome
  /\ calls = 0
  /\ analyses = 0

\* ------------------------------------------------- AoE2 prompt context
MaxGameSeconds == 90

\* "Divide game time by 1.5 to get video time" (aoe2/observer.py:375): 3/2
GameSpeedNum == 3
GameSpeedDen == 2

\* a parsed replay: the POV player's Feudal Age uptime and the time of one
\* action, both in seconds of game time (aoe2_parser.py:33, 86); None: absent
AoE2Replays ==
  { [pov_player |-> "pov", feudal_age |-> f, action_time |-> a] :
      f \in {None} \cup 0..MaxGameSeconds, a \in {None, MaxGameSeconds} }
NoAoE2Replay == [pov_player |-> "", feudal_age |-> None, action_time |-> None]

\* f"{seconds // 60}:{seconds % 60:02d}"
MinSec(seconds) == [m |-> seconds \div 60, ss |-> seconds % 60]
NoPrompt == [built |-> FALSE, pov_feudal |-> NoDisplay, players_feudal |-> NoDisplay,
             action |-> NoDisplay]

\* _format_aoe2_replay: the POV player's details show the uptime when it is
\* truthy, the list of all players when the key is present, and each action
\* shows its own time string
_format_aoe2_replay(data) ==
  [built |-> TRUE,
   pov_feudal |-> IF data.feudal_age \in {None, 0} THEN NoDisplay
                  ELSE MinSec(data.feudal_age),
   players_feudal |-> IF data.feudal_age = None THEN NoDisplay ELSE MinSec(data.feudal_age),
   action |-> IF data.action_time = None THEN NoDisplay ELSE MinSec(data.action_time)]

\* ------------------------------- agents/base.py, the CS2 prompt context
\* parsers/cs2.py: every round record carries freeze_end_tick, the tick at
\* which the buy freeze ends, 0 when the demo gives none
FreezeChoices(rounds) ==
  { f \in [DOMAIN rounds -> 0..MaxTick] :
      \A i \in DOMAIN rounds :
        f[i] = 0 \/ (rounds[i].start_tick <= f[i] /\ f[i] <= rounds[i].end_tick) }

WithFreeze(demo_data, freeze) ==
  [demo_data EXCEPT
     !.rounds = [i \in DOMAIN demo_data.rounds |->
                   [round_num |-> demo_data.rounds[i].round_num,
                    start_tick |-> demo_data.rounds[i].start_tick,
                    freeze_end_tick |-> freeze[i],
                    end_tick |-> demo_data.rounds[i].end_tick,
                    official_end_tick |-> demo_data.rounds[i].official_end_tick]]]

\* `x` in a condition: None and 0 are false
Truthy(x) == x # None /\ x # 0

\* `x or y`
OrElse(x, y) == IF Truthy(x) THEN x ELSE y

\* death_by_round[round_num] = {...}: a later kill of the POV player in the
\* same round overwrites the earlier one (None when the round has no entry)
LastDeathByRound(kills, pov_player, round_num) ==
  LET hits == { i \in DOMAIN kills : /\ Lower(kills[i].victim) = Lower(pov_player)
                                     /\ kills[i].round_num = round_num }
  IN IF hits = {} THEN None
     ELSE kills[CHOOSE i \in hits : \A j \in hits : j <= i].tick

_build_round_timeline(replay, pov_player, kills, rounds) ==
  IF Len(rounds) = 0 THEN <<>>
  ELSE
    LET first_round_start ==
          IF replay.video_start_tick = None
          THEN OrElse(rounds[1].freeze_end_tick, OrElse(rounds[1].start_tick, 0))
          ELSE replay.video_start_tick
        \* (tick - first_round_start) / tickrate if first_round_start else 0
        VideoTime(tick) == IF Truthy(first_round_start)
                           THEN Max0(tick - first_round_start) ELSE 0
    IN [i \in 1..Len(rounds) |->
          LET rnd == rounds[i]
              freeze_end == OrElse(rnd.freeze_end_tick, OrElse(rnd.start_tick, 0))
              end_tick == OrElse(rnd.end_tick, 0)
              start_seconds == VideoTime(freeze_end)
              end_seconds == VideoTime(end_tick)
              death_tick == LastDeathByRound(kills, pov_player, rnd.round_num)
              \* `if death_info`: an entry of the lookup is a non-empty dict
              died == death_tick # None
              death_seconds == IF died THEN VideoTime(death_tick) ELSE None
          IN [round |-> rnd.round_num,
              start_seconds |-> start_seconds, start_time |-> Display(start_seconds),
              end_seconds |-> end_seconds, end_time |-> Display(end_seconds),
              death_seconds |-> death_seconds,
              death_time |-> IF died THEN Display(death_seconds) ELSE NoDisplay,
              valid_end |-> IF died THEN Display(death_seconds) ELSE Display(end_seconds)]]

\* _format_cs2_replay: the round timeline is rendered when a POV player is named
_format_cs2_replay(replay) ==
  IF replay.pov_player # ""
  THEN _build_round_timeline(replay, replay.pov_player, replay.kills, replay.rounds)
  ELSE <<>>

\* CS2ObserverAgent._build_alive_ranges_text: one window per entry of the
\* stored demo timeline, start_time to death_time or end_time
_build_alive_ranges_text(replay) ==
  [j \in DOMAIN replay.rounds_timeline_demo |->
     LET r == replay.rounds_timeline_demo[j]
     IN [round |-> r.round, start_time |-> r.start_time,
         valid_end |-> IF r.death_time # NoDisplay THEN r.death_time ELSE r.end_time]]

NoCS2Prompt == [built |-> FALSE, timeline |-> <<>>, alive_ranges |-> <<>>]

\* no CS2 prompt has been built
CS2PromptInit == round_timeline = NoCS2Prompt

\* no AoE2 analysis is under way
AoE2Init ==
  /\ aoe2_replay_data = NoAoE2Replay
  /\ aoe2_prompt = NoPrompt

\* ------------------------------------------------- main.py
MaxJobs == 2
Jobs == 1..MaxJobs

\* str(e) of an exception: a message, or nothing for an exception raised
\* without arguments
Messages == {"", "msg"}

NoRecord == [status |-> "none", error |-> "none"]
NoTask == [pc |-> "absent", game_type |-> "", replay |-> FALSE, exc |-> "none",
           exc_at |-> "none", tips |-> 0]

\* no analysis has been requested
ServiceInit ==
  /\ records = [i \in Jobs |-> NoRecord]
  /\ tasks = [i \in Jobs |-> NoTask]
  /\ holder = 0

PipelineInitAt(data) ==
  /\ pc = "detect"
  /\ stage_log = <<>>
  /\ replay_data = data
  /\ filtered_replay_data = data
  /\ round_info = NoRoundInfoYet
  /\ demo_rounds_timeline = <<>>
  /\ observer_response = NoText
  /\ observer_output = <<>>
  /\ valid_tips = <<>>
  /\ pre_removed_tips = <<>>
  /\ validator_response = NoText
  /\ final_output = NoOutput
  /\ result = NoOutput
  /\ error = NoError

InitAt(data) ==
  PipelineInitAt(data) /\ GatewayInit(1, TRUE) /\ ServiceInit /\ AoE2Init /\ CS2PromptInit

\* analyze, lines 73-122: round detection answers, the demo data is filtered,
\* the timeline is built and stored for the agents
RoundDetection ==
  /\ pc = "detect"
  /\ \E info \in RoundInfos :
       LET filtered == IF info.detected
                       THEN filter_demo_data_by_rounds(replay_data, info.first_round,
                                                       info.last_round)
                       ELSE replay_data
           timeline == IF Len(filtered.rounds) > 0
                       THEN build_rounds_timeline_from_demo(filtered, filtered.pov_player)
                       ELSE <<>>
           stored == [filtered EXCEPT !.has_timeline = TRUE,
                                      !.rounds_timeline_demo = timeline]
       IN /\ round_info' = info
          /\ filtered_replay_data' = stored
          \* undetected: filtered_replay_data is the caller's dict itself;
          \* detected: a shallow copy that shares the summary dict
          /\ replay_data' = IF info.detected
                            THEN [replay_data EXCEPT !.summary = filtered.summary]
                            ELSE stored
          /\ demo_rounds_timeline' = timeline
  /\ pc' = "observing"
  /\ stage_log' = Append(stage_log, "timeline")
  /\ UNCHANGED <<observer_response, observer_output, valid_tips, pre_removed_tips,
                 validator_response, final_output, result, error>>
  /\ UNCHANGED <<gatewayVars, serviceVars, aoe2Vars, cs2PromptVars>>

\* BaseAgent.process: the Observer response arrives and is parsed
ObserverResponse(responses) ==
  /\ pc = "observing"
  /\ \E text \in responses :
       LET parsed == parse_response(text)
       IN /\ observer_response' = text
          /\ IF parsed.raised # ""
             THEN /\ pc' = "raised"
                  /\ error' = [type |-> parsed.raised, at |-> "observer"]
                  /\ UNCHANGED observer_output
             ELSE /\ pc' = "verify"
                  /\ observer_output' = parsed.tips
                  /\ UNCHANGED error
  /\ stage_log' = Append(stage_log, "observer")
  /\ UNCHANGED <<replay_data, filtered_replay_data, round_info, demo_rounds_timeline,
                 valid_tips, pre_removed_tips, validator_response, final_output, result>>
  /\ UNCHANGED <<gatewayVars, serviceVars, aoe2Vars, cs2PromptVars>>

\* variant of ObserverCallRaises: the failure is absorbed and the analysis goes
\* on with no tips
ObserverCallAbsorbed ==
  /\ pc = "observing"
  /\ pc' = "verify"
  /\ error' = [type |-> "APIError", at |-> "observer_call"]
  /\ observer_output' = <<>>
  /\ stage_log' = Append(stage_log, "observer")
  /\ UNCHANGED <<replay_data, filtered_replay_data, round_info, demo_rounds_timeline,
                 observer_response, valid_tips, pre_removed_tips, validator_response,
                 final_output, result>>
  /\ UNCHANGED <<gatewayVars, serviceVars, aoe2Vars, cs2PromptVars>>

\* BaseAgent.process, lines 178-197 and 249-251: the Observer's model call
\* raises; process logs and re-raises, analyze (line 140) does not catch
ObserverCallRaises ==
  /\ pc = "observing"
  /\ pc' = "raised"
  /\ error' = [type |-> "APIError", at |-> "observer_call"]
  /\ stage_log' = Append(stage_log, "observer")
  /\ UNCHANGED <<replay_data, filtered_replay_data, round_info, demo_rounds_timeline,
                 observer_response, observer_output, valid_tips, pre_removed_tips,
                 validator_response, final_output, result>>
  /\ UNCHANGED <<gatewayVars, serviceVars, aoe2Vars, cs2PromptVars>>

\* verify, lines 133-211: pre-filter, then the Validator request is issued
PreFilter ==
  /\ pc = "verify"
  /\ LET filtered == _pre_filter_by_alive_time(observer_output,
                                               filtered_replay_data.rounds_timeline_demo)
     IN IF filtered.raised # ""
        THEN /\ pc' = "raised"
             /\ error' = [type |-> filtered.raised, at |-> "pre_filter"]
             /\ UNCHANGED <<valid_tips, pre_removed_tips>>
        ELSE /\ pc' = "validating"
             /\ valid_tips' = filtered.valid_tips
             /\ pre_removed_tips' = filtered.removed_tips
             /\ UNCHANGED error
  /\ UNCHANGED <<replay_data, filtered_replay_data, round_info, demo_rounds_timeline,
                 observer_response, observer_output, validator_response, final_output,
                 result>>
  /\ stage_log' = Append(stage_log, "pre_filter")
  /\ UNCHANGED <<gatewayVars, serviceVars, aoe2Vars, cs2PromptVars>>

\* variant of ValidatorResponse: an answer without verified tips is asked for
\* again
ValidatorResponseRetry(responses) ==
  /\ pc = "validating"
  /\ \E text \in responses :
       LET parsed == _parse_verification_response(text)
       IN /\ validator_response' = text
          /\ IF parsed.raised # ""
             THEN /\ pc' = "raised"
                  /\ error' = [type |-> parsed.raised, at |-> "validator"]
                  /\ UNCHANGED final_output
             ELSE IF parsed.verified_tips = <<>>
             THEN UNCHANGED <<pc, final_output, error>>
             ELSE /\ pc' = "validated"
                  /\ final_output' = [set |-> TRUE,
                                      tips |-> parsed.verified_tips,
                                      removed_tips |-> pre_removed_tips \o parsed.removed_tips,
                                      summary_text |-> parsed.summary_text]
                  /\ UNCHANGED error
  /\ stage_log' = Append(stage_log, "validator")
  /\ UNCHANGED <<replay_data, filtered_replay_data, round_info, demo_rounds_timeline,
                 observer_response, observer_output, valid_tips, pre_removed_tips, result>>
  /\ UNCHANGED <<gatewayVars, serviceVars, aoe2Vars, cs2PromptVars>>

\* verify, lines 213-254: the Validator response is parsed and the output built
ValidatorResponse(responses) ==
  /\ pc = "validating"
  /\ \E text \in responses :
       LET parsed == _parse_verification_response(text)
       IN /\ validator_response' = text
          /\ IF parsed.raised # ""
             THEN /\ pc' = "raised"
                  /\ error' = [type |-> parsed.raised, at |-> "validator"]
                  /\ UNCHANGED final_output
             ELSE /\ pc' = "validated"
                  /\ final_output' = [set |-> TRUE,
                                      tips |-> parsed.verified_tips,
                                      removed_tips |-> pre_removed_tips \o parsed.removed_tips,
                                      summary_text |-> parsed.summary_text]
                  /\ UNCHANGED error
  /\ stage_log' = Append(stage_log, "validator")
  /\ UNCHANGED <<replay_data, filtered_replay_data, round_info, demo_rounds_timeline,
                 observer_response, observer_output, valid_tips, pre_removed_tips, result>>
  /\ UNCHANGED <<gatewayVars, serviceVars, aoe2Vars, cs2PromptVars>>

\* verify, line 211: the Validator's model call raises; neither verify nor
\* analyze (line 161) catches
ValidatorCallRaises ==
  /\ pc = "validating"
  /\ pc' = "raised"
  /\ error' = [type |-> "APIError", at |-> "validator_call"]
  /\ stage_log' = Append(stage_log, "validator")
  /\ UNCHANGED <<replay_data, filtered_replay_data, round_info, demo_rounds_timeline,
                 observer_response, observer_output, valid_tips, pre_removed_tips,
                 validator_response, final_output, result>>
  /\ UNCHANGED <<gatewayVars, serviceVars, aoe2Vars, cs2PromptVars>>

\* the fields CS2PipelineOutput declares (extra keyword arguments are dropped)
CS2PipelineOutputFields == {"tips", "rounds_timeline", "summary_text", "pipeline_metadata"}

\* analyze, lines 166-207: metadata, then PipelineOutput(...,
\* last_interaction_id=final_output.last_interaction_id)
Finish ==
  /\ pc = "validated"
  /\ IF "last_interaction_id" \in CS2PipelineOutputFields
     THEN /\ pc' = "done"
          /\ result' = final_output
          /\ UNCHANGED error
     ELSE /\ pc' = "raised"
          /\ error' = [type |-> "AttributeError", at |-> "finish"]
          /\ UNCHANGED result
  /\ UNCHANGED <<replay_data, filtered_replay_data, round_info, demo_rounds_timeline,
                 observer_response, observer_output, valid_tips, pre_removed_tips,
                 validator_response, final_output, stage_log>>
  /\ UNCHANGED <<gatewayVars, serviceVars, aoe2Vars, cs2PromptVars>>

\* ------------------------------------------------- gateway actions
\* GeminiProvider.analyze_video, lines 279-292: the availability check
StartAnalyzeVideo(p, path) ==
  LET a == is_available(p, now)
  IN /\ gemini' = a.p
     /\ video_path' = path
     /\ sent' = <<>>
     /\ key_attempt' = 0
     /\ calls' = calls + 1
     /\ IF a.available
        THEN gw_pc' = "get_client" /\ outcome' = NoOutcome
        ELSE gw_pc' = "idle" /\ outcome' = VideoAnalysisResult("unavailable")

\* a caller invokes analyze_video on the provider it holds
Invoke ==
  /\ gw_pc = "idle"
  /\ calls < MaxCalls
  /\ \E path \in BOOLEAN : StartAnalyzeVideo(gemini, path)
  /\ UNCHANGED <<now, analyses>>
  /\ UNCHANGED <<pipelineVars, serviceVars, aoe2Vars, cs2PromptVars>>

\* analyze_video, line 296: top of the attempt loop
GetClient ==
  /\ gw_pc = "get_client"
  /\ LET c == _get_client(gemini, now)
     IN /\ gemini' = c.p
        /\ IF c.raised
           THEN gw_pc' = "idle" /\ outcome' = VideoAnalysisResult("no_key")
           ELSE gw_pc' = "request" /\ UNCHANGED outcome
  /\ UNCHANGED <<now, key_attempt, video_path, sent, calls, analyses>>
  /\ UNCHANGED <<pipelineVars, serviceVars, aoe2Vars, cs2PromptVars>>

\* analyze_video, lines 299-359: the endpoint answers the attempt; on a
\* rate-limit or file-permission error the key is rotated, the video uploaded
\* again under the new key (upload_ok: that upload succeeds) and the loop
\* continues while attempts are left
EndpointReply ==
  /\ gw_pc = "request"
  /\ \E reply \in Replies, upload_ok \in BOOLEAN :
       LET entry == [key |-> gemini._current_key_index, at |-> now,
                     stage |-> reply.stage, signal |-> reply.signal]
           rotating == _is_rate_limit_error(reply.signal) \/ is_file_permission(reply.signal)
           r == _rotate_key_on_rate_limit(gemini, now)
           retry == rotating /\ r.rotated
           reupload == _get_client(r.p, now)
           more == AttemptsLeft(gemini, key_attempt)
       IN /\ ~upload_ok => (retry /\ video_path)
          /\ sent' = Append(sent, entry)
          /\ IF reply.signal = "ok"
             THEN /\ gw_pc' = "idle"
                  /\ outcome' = VideoAnalysisResult("")
                  /\ UNCHANGED <<gemini, key_attempt>>
             ELSE IF ~retry
             THEN /\ gemini' = IF rotating THEN r.p ELSE gemini
                  /\ gw_pc' = "idle"
                  /\ outcome' = VideoAnalysisResult(reply.signal)
                  /\ UNCHANGED key_attempt
             ELSE /\ gemini' = IF video_path THEN reupload.p ELSE r.p
                  /\ IF (video_path /\ ~upload_ok) \/ ~more
                     THEN /\ gw_pc' = "idle"
                          /\ outcome' = VideoAnalysisResult(reply.signal)
                          /\ UNCHANGED key_attempt
                     ELSE /\ gw_pc' = "get_client"
                          /\ key_attempt' = key_attempt + 1
                          /\ UNCHANGED outcome
  /\ UNCHANGED <<now, video_path, calls, analyses>>
  /\ UNCHANGED <<pipelineVars, serviceVars, aoe2Vars, cs2PromptVars>>

\* time.time() advances, between calls and while a request is in flight (what
\* analyze_video does between an answer and the next request takes no time
\* on a clock of half days)
Tick ==
  /\ gw_pc \in {"idle", "request"}
  /\ now < MaxNow
  /\ now' = now + 1
  /\ UNCHANGED <<gemini, gw_pc, key_attempt, video_path, sent, outcome, calls, analyses>>
  /\ UNCHANGED <<pipelineVars, serviceVars, aoe2Vars, cs2PromptVars>>

\* video_analyzer.analyze_video, lines 362-386: a new GeminiProvider, the
\* video upload (upload_ok), then analyze_video with the video_path
AnalysisRequest ==
  /\ gw_pc = "idle"
  /\ analyses < MaxAnalyses
  /\ \E upload_ok \in BOOLEAN :
       LET fresh == GeminiProvider(Len(gemini.api_keys), gemini.enabled)
           c == _get_client(fresh, now)
       IN /\ c.raised => ~upload_ok
          /\ IF ~upload_ok
             THEN /\ gemini' = c.p
                  /\ outcome' = VideoAnalysisResult("upload")
                  /\ UNCHANGED <<gw_pc, key_attempt, video_path, sent, calls>>
             ELSE StartAnalyzeVideo(c.p, TRUE)
  /\ analyses' = analyses + 1
  /\ UNCHANGED now
  /\ UNCHANGED <<pipelineVars, serviceVars, aoe2Vars, cs2PromptVars>>

\* ------------------------------------------------- service actions
\* the coroutines of all requests run on one event loop (create_analysis,
\* line 718: asyncio.create_task): a coroutine takes a step only when no
\* other coroutine occupies the loop
Runs(i) == holder \in {0, i}

\* calls a pipeline makes to the model endpoint
ModelCalls == {"round_detector", "observer", "validator"}

\* the except branch of run_analysis_background is entered with exception e,
\* raised at the task's current position
Raise(i, msg) ==
  [tasks EXCEPT ![i].pc = "error_write", ![i].exc = msg, ![i].exc_at = tasks[i].pc]

\* create_analysis: a request without a replay file is refused (HTTP 400);
\* otherwise the record is saved as 'processing' and the background task made
create_analysis(i) ==
  /\ tasks[i].pc = "absent"
  /\ holder = 0
  /\ \E game_type \in {"cs2", "aoe2"}, replay_object_name \in BOOLEAN :
       IF ~replay_object_name
       THEN UNCHANGED <<records, tasks>>
       ELSE /\ records' = [records EXCEPT ![i] = [status |-> "processing", error |-> "none"]]
            /\ tasks' = [tasks EXCEPT ![i].pc = "parsing_demo", ![i].game_type = game_type]
  /\ UNCHANGED holder
  /\ UNCHANGED <<pipelineVars, gatewayVars, aoe2Vars, cs2PromptVars>>

\* run_analysis_background, lines 511-538: the replay is downloaded and
\* parsed in a thread; a failure leaves replay_data None
ParseReplay(i) ==
  /\ tasks[i].pc = "parsing_demo"
  /\ Runs(i)
  /\ \E parsed \in BOOLEAN :
       tasks' = [tasks EXCEPT ![i].pc = "uploading_video", ![i].replay = parsed]
  /\ UNCHANGED <<records, holder>>
  /\ UNCHANGED <<pipelineVars, gatewayVars, aoe2Vars, cs2PromptVars>>

\* run_analysis_pipeline, lines 98-114: the video is downloaded and uploaded
\* in threads (either may raise), then analyze starts.  CS2: analyze calls
\* detect_video_rounds, whose generate_content call is made in the coroutine
\* itself (round_detector.py:87); AoE2: the Observer's call goes to a thread
UploadVideo(i) ==
  /\ tasks[i].pc = "uploading_video"
  /\ Runs(i)
  /\ \E ok \in BOOLEAN, msg \in Messages :
       /\ ok => msg = "msg"
       /\ IF ~ok
          THEN tasks' = Raise(i, msg) /\ UNCHANGED holder
          ELSE IF tasks[i].game_type = "cs2"
          THEN tasks' = [tasks EXCEPT ![i].pc = "round_detector"] /\ holder' = i
          ELSE tasks' = [tasks EXCEPT ![i].pc = "observer"] /\ UNCHANGED holder
  /\ UNCHANGED records
  /\ UNCHANGED <<pipelineVars, gatewayVars, aoe2Vars, cs2PromptVars>>

\* detect_video_rounds returns (its own failures are absorbed); analyze,
\* lines 103-140: with no replay data line 122 raises TypeError, otherwise
\* the Observer's call goes to a thread (agents/base.py:197)
RoundDetectorReturns(i) ==
  /\ tasks[i].pc = "round_detector"
  /\ Runs(i)
  /\ tasks' = IF tasks[i].replay THEN [tasks EXCEPT ![i].pc = "observer"]
                                 ELSE Raise(i, "msg")
  /\ holder' = 0
  /\ UNCHANGED records
  /\ UNCHANGED <<pipelineVars, gatewayVars, aoe2Vars, cs2PromptVars>>

\* the Observer's call returns or raises; process re-raises.  Then verify
\* makes the Validator's call in the coroutine itself (cs2/validator.py:211,
\* aoe2/validator.py:99)
ObserverReturns(i) ==
  /\ tasks[i].pc = "observer"
  /\ Runs(i)
  /\ \E ok \in BOOLEAN, msg \in Messages :
       /\ ok => msg = "msg"
       /\ IF ~ok
          THEN tasks' = Raise(i, msg) /\ UNCHANGED holder
          ELSE tasks' = [tasks EXCEPT ![i].pc = "validator"] /\ holder' = i
  /\ UNCHANGED records
  /\ UNCHANGED <<pipelineVars, gatewayVars, aoe2Vars, cs2PromptVars>>

\* the Validator's call returns or raises.  CS2: analyze then raises
\* AttributeError at pipeline.py:206; AoE2: the result reaches
\* run_analysis_background with its tips
ValidatorReturns(i) ==
  /\ tasks[i].pc = "validator"
  /\ Runs(i)
  /\ \E ok \in BOOLEAN, msg \in Messages, n \in 0..MaxTips :
       /\ ok => msg = "msg"
       /\ (~ok \/ tasks[i].game_type = "cs2") => n = 0
       /\ IF ~ok
          THEN tasks' = Raise(i, msg)
          ELSE IF tasks[i].game_type = "cs2"
          THEN tasks' = Raise(i, "msg")
          ELSE tasks' = [tasks EXCEPT ![i].pc = "generating_thumbnail", ![i].tips = n]
  /\ holder' = 0
  /\ UNCHANGED records
  /\ UNCHANGED <<pipelineVars, gatewayVars, aoe2Vars, cs2PromptVars>>

\* run_analysis_background, lines 566-648: thumbnail and audio (their
\* failures are absorbed), then the record is updated to 'complete'
WriteComplete(i) ==
  /\ tasks[i].pc = "generating_thumbnail"
  /\ Runs(i)
  /\ records' = [records EXCEPT ![i].status = "complete"]
  /\ tasks' = [tasks EXCEPT ![i].pc = "ended"]
  /\ UNCHANGED holder
  /\ UNCHANGED <<pipelineVars, gatewayVars, aoe2Vars, cs2PromptVars>>

\* run_analysis_background, lines 651-657: except Exception as e
WriteError(i) ==
  /\ tasks[i].pc = "error_write"
  /\ Runs(i)
  /\ records' = [records EXCEPT ![i] = [status |-> "error", error |-> tasks[i].exc]]
  /\ tasks' = [tasks EXCEPT ![i].pc = "ended"]
  /\ UNCHANGED holder
  /\ UNCHANGED <<pipelineVars, gatewayVars, aoe2Vars, cs2PromptVars>>

\* ------------------------------------------------- AoE2 prompt
\* AoE2ObserverAgent.build_prompt: the replay data is formatted for the prompt
AoE2BuildPrompt ==
  /\ ~aoe2_prompt.built
  /\ aoe2_prompt' = _format_aoe2_replay(aoe2_replay_data)
  /\ UNCHANGED aoe2_replay_data
  /\ UNCHANGED <<pipelineVars, gatewayVars, serviceVars, cs2PromptVars>>

\* CS2ObserverAgent.build_prompt: the replay context with its round timeline
\* and the valid analysis windows go into one prompt
ObserverBuildPrompt ==
  /\ pc = "observing"
  /\ ~round_timeline.built
  /\ round_timeline' = [built |-> TRUE,
                        timeline |-> _format_cs2_replay(filtered_replay_data),
                        alive_ranges |-> _build_alive_ranges_text(filtered_replay_data)]
  /\ UNCHANGED <<pipelineVars, gatewayVars, serviceVars, aoe2Vars>>

\* ------------------------------------------------------ specifications
\* the datasets of the whole-pipeline specification: a named POV player, at
\* most one kill (a POV death), rounds two ticks long whose official end is
\* at most a tick later
PipelineDatasets ==
  UNION { { MkDataset(Numbered(rs), ks, "pov") :
              ks \in { k \in KillSeqs(Numbered(rs), 1) :
                         \A i \in DOMAIN k : k[i].victim = "POV" } } :
          rs \in { r \in RoundSeqs(MaxRounds, 0) :
                     \A i \in DOMAIN r :
                       /\ r[i].end_tick - r[i].start_tick = 2
                       /\ r[i].official_end_tick - r[i].end_tick <= 1 } }

Init == \E d \in PipelineDatasets : InitAt(d)

Next ==
  \/ RoundDetection
  \/ ObserverResponse(PipelineObserverResponses)
  \/ ObserverCallRaises
  \/ PreFilter
  \/ ValidatorResponse(PipelineValidatorResponses)
  \/ ValidatorCallRaises
  \/ Finish

Spec == Init /\ [][Next]_vars

\* the timeline builder over every dataset of the bounds
InitTimeline == \E d \in Datasets(MaxKills) : InitAt(d)
NextTimeline == RoundDetection
SpecTimeline == InitTimeline /\ [][NextTimeline]_vars

\* the two renderings of the observation windows over every dataset of the
\* bounds, each round with a freeze end
InitPrompt ==
  \E d \in Datasets(MaxKills) : \E f \in FreezeChoices(d.rounds) : InitAt(WithFreeze(d, f))
NextPrompt ==
  \/ RoundDetection
  \/ ObserverBuildPrompt
SpecPrompt == InitPrompt /\ [][NextPrompt]_vars

\* the pre-filter over every timeline the builder produces and every tip
\* list the Observer parser returns
\* (a dataset per timeline: kills of other players, a second death in a
\* round and a missing POV name leave the timeline as it is)
PreFilterDatasets(max_kills) ==
  { d \in Datasets(max_kills) :
      /\ d.pov_player = "pov"
      /\ \A i \in DOMAIN d.kills : d.kills[i].victim = "POV"
      /\ \A i, j \in DOMAIN d.kills :
           i < j => d.kills[i].round_num < d.kills[j].round_num }
ObserverOutputs ==
  { parse_response(text).tips :
      text \in { t \in ObserverResponses : parse_response(t).raised = "" } }

AfterDetection(d, timeline) ==
  [d EXCEPT !.has_timeline = TRUE, !.rounds_timeline_demo = timeline]

InitPreFilter ==
  \E d \in PreFilterDatasets(MaxKills), tips \in ObserverOutputs :
    LET timeline == build_rounds_timeline_from_demo(d, d.pov_player)
        stored == AfterDetection(d, timeline)
    IN /\ pc = "verify"
       /\ stage_log = <<"timeline", "observer">>
       /\ GatewayInit(1, TRUE)
       /\ ServiceInit
       /\ AoE2Init
       /\ CS2PromptInit
       /\ replay_data = stored
       /\ filtered_replay_data = stored
       /\ round_info = NoRoundInfoYet
       /\ demo_rounds_timeline = timeline
       /\ observer_response = NoText
       /\ observer_output = tips
       /\ valid_tips = <<>>
       /\ pre_removed_tips = <<>>
       /\ validator_response = NoText
       /\ final_output = NoOutput
       /\ result = NoOutput
       /\ error = NoError
NextPreFilter == PreFilter
SpecPreFilter == InitPreFilter /\ [][NextPreFilter]_vars

\* the two response parsers over every response of the bounds
ParseDataset == MkDataset(Numbered(<<[start_tick |-> 0, end_tick |-> 2,
                                      official_end_tick |-> 2]>>), <<>>, "pov")
InitParse ==
  LET timeline == build_rounds_timeline_from_demo(ParseDataset, "pov")
      stored == AfterDetection(ParseDataset, timeline)
  IN /\ pc \in {"observing", "validating"}
     /\ stage_log = IF pc = "observing" THEN <<"timeline">>
                                        ELSE <<"timeline", "observer", "pre_filter">>
     /\ GatewayInit(1, TRUE)
     /\ ServiceInit
     /\ AoE2Init
     /\ CS2PromptInit
     /\ replay_data = stored
     /\ filtered_replay_data = stored
     /\ round_info = NoRoundInfoYet
     /\ demo_rounds_timeline = timeline
     /\ observer_response = NoText
     /\ observer_output = <<>>
     /\ valid_tips = <<>>
     /\ pre_removed_tips = <<>>
     /\ validator_response = NoText
     /\ final_output = NoOutput
     /\ result = NoOutput
     /\ error = NoError
NextParse ==
  \/ ObserverResponse(ObserverResponses)
  \/ ValidatorResponse(ValidatorResponses \cup TwoTipValidatorResponses)
SpecParse == InitParse /\ [][NextParse]_vars

\* one provider, invoked again and again while the clock runs
InitGateway ==
  /\ PipelineInitAt(ParseDataset)
  /\ \E n \in 0..MaxKeys, enabled \in BOOLEAN : GatewayInit(n, enabled)
  /\ ServiceInit
  /\ AoE2Init
  /\ CS2PromptInit
NextGateway ==
  \/ Invoke
  \/ GetClient
  \/ EndpointReply
  \/ Tick
SpecGateway == InitGateway /\ [][NextGateway]_vars

\* the process: every analysis request of video_analyzer makes its own provider
NextProcess ==
  \/ AnalysisRequest
  \/ GetClient
  \/ EndpointReply
  \/ Tick
SpecProcess == InitGateway /\ [][NextProcess]_vars

\* the service: analyses requested one after another, their background tasks
\* interleaving on the event loop
InitService ==
  /\ PipelineInitAt(ParseDataset)
  /\ GatewayInit(1, TRUE)
  /\ ServiceInit
  /\ AoE2Init
  /\ CS2PromptInit
NextService ==
  \E i \in Jobs :
    \/ create_analysis(i)
    \/ ParseReplay(i)
    \/ UploadVideo(i)
    \/ RoundDetectorReturns(i)
    \/ ObserverReturns(i)
    \/ ValidatorReturns(i)
    \/ WriteComplete(i)
    \/ WriteError(i)
SpecService == InitService /\ [][NextService]_vars

\* the AoE2 prompt context over every replay of the bounds
InitAoE2 ==
  /\ PipelineInitAt(ParseDataset)
  /\ GatewayInit(1, TRUE)
  /\ ServiceInit
  /\ aoe2_replay_data \in AoE2Replays
  /\ aoe2_prompt = NoPrompt
  /\ CS2PromptInit
NextAoE2 == AoE2BuildPrompt
SpecAoE2 == InitAoE2 /\ [][NextAoE2]_vars

\* ------------------------------------------------------------ claims
RaisedAt(stages) == pc = "raised" /\ error.at \in stages
ObserverActed == pc \in {"verify", "validating", "validated", "done"}
                   \/ RaisedAt({"observer", "pre_filter", "validator", "finish"})
PreFilterActed == pc \in {"validating", "validated", "done"}
                    \/ RaisedAt({"pre_filter", "validator", "finish"})
ValidatorActed == pc \in {"validated", "done"} \/ RaisedAt({"validator", "finish"})
TimelineBuilt == pc # "detect"

StoredTimeline == filtered_replay_data.rounds_timeline_demo

Rejected(tip) == \E k \in DOMAIN pre_removed_tips : pre_removed_tips[k].id = tip.id
PassedOn(tip) == \E k \in DOMAIN valid_tips : valid_tips[k] = tip

AfterBound(r, t) == InRound(r, t) /\ t * TickRate > Bound(r)
Accepted(tip) ==
  \/ tip.timestamp = None
  \/ \E j \in DOMAIN StoredTimeline : InAliveWindow(StoredTimeline[j], tip.timestamp)

\* C1: once the pre-filter has run, every candidate with a timestamp that lies
\* in a round window and is strictly greater than that window's bound (death
\* time when set, else round end) is in the rejected list and is not in the
\* valid list handed to the Validator.
C1_PreFilterSoundness ==
  PreFilterActed =>
    \A i \in DOMAIN observer_output : \A j \in DOMAIN StoredTimeline :
      LET tip == observer_output[i]
      IN (tip.timestamp # None /\ AfterBound(StoredTimeline[j], tip.timestamp))
           => (Rejected(tip) /\ ~PassedOn(tip))

\* C2: a candidate timestamped after the POV player's death in the round that
\* holds it comes back as a removed-tip record (id, reason, confidence 0) in
\* the rejected list, no exception is raised, and the reason names that round
\* and its death time.
C2_RejectionIsARecord ==
  PreFilterActed =>
    \A i \in DOMAIN observer_output : \A j \in DOMAIN StoredTimeline :
      LET tip == observer_output[i]
          r == StoredTimeline[j]
      IN (/\ tip.timestamp # None
          /\ r.death_seconds # None
          /\ AfterBound(r, tip.timestamp)
          /\ ~Accepted(tip)
          /\ \A q \in 1..(j - 1) : ~InRound(StoredTimeline[q], tip.timestamp))
           => /\ ~RaisedAt({"pre_filter"})
              /\ \E k \in DOMAIN pre_removed_tips :
                   /\ pre_removed_tips[k].id = tip.id
                   /\ pre_removed_tips[k].confidence = 0
                   /\ pre_removed_tips[k].reason.round = r.round
                   /\ pre_removed_tips[k].reason.death_time = r.death_time

\* C3: no tip among the verified tips that the Validator stage returns (and
\* analyze copies into its result) is timestamped strictly after the POV
\* player's death in the round window that holds it.
C3_NoVerifiedTipAfterDeath ==
  final_output.set =>
    \A i \in DOMAIN final_output.tips : \A j \in DOMAIN demo_rounds_timeline :
      LET tip == final_output.tips[i]
          r == demo_rounds_timeline[j]
      IN (tip.timestamp # None /\ r.death_seconds # None /\ InRound(r, tip.timestamp))
           => tip.timestamp * TickRate <= r.death_seconds

\* C4: every verified tip the Validator stage returns has confidence >= 8.
C4_ConfidenceThreshold ==
  final_output.set =>
    \A i \in DOMAIN final_output.tips : final_output.tips[i].confidence >= 8

\* C5: a candidate whose timestamp lies in no round window at all (zero
\* rounds, a gap between rounds, after the last round) is rejected by the
\* pre-filter.
C5_OutsideEveryWindowRejected ==
  PreFilterActed =>
    \A i \in DOMAIN observer_output :
      LET tip == observer_output[i]
      IN (/\ tip.timestamp # None
          /\ \A j \in DOMAIN StoredTimeline : ~InRound(StoredTimeline[j], tip.timestamp))
           => (Rejected(tip) /\ ~PassedOn(tip))

\* C6: every candidate with no timestamp or with a timestamp inside some
\* alive window is in the valid list, unchanged and in the original relative
\* order, and every candidate is in exactly one of the valid and rejected lists.
C6_PreFilterAcceptance ==
  PreFilterActed =>
    /\ SelectSeq(valid_tips, Accepted) = SelectSeq(observer_output, Accepted)
    /\ Len(valid_tips) + Len(pre_removed_tips) = Len(observer_output)
    /\ \A i \in DOMAIN observer_output :
         PassedOn(observer_output[i]) \/ Rejected(observer_output[i])

\* C7: a Validator response that cannot be read as the expected JSON object
\* (no JSON, malformed JSON, a JSON value that is not an object, or an object
\* whose verified_tips is not a list) makes the Validator stage return zero
\* verified tips and a non-empty summary, without raising.
NotTheExpectedObject(text) ==
  LET data == _extract_json(text)
  IN IF data.kind # "object" THEN TRUE
     ELSE data.obj.verified_tips.kind \notin {"list", "absent"}
C7_ValidatorParseFailureAbsorbed ==
  (ValidatorActed /\ NotTheExpectedObject(validator_response)) =>
    /\ ~RaisedAt({"validator"})
    /\ final_output.set
    /\ final_output.tips = <<>>
    /\ final_output.summary_text.len > 0

\* C8: parse_response never raises, and returns an empty tip list when the
\* response holds no valid structure (no JSON, a JSON value that is not an
\* object, or a 'tips' field that is not a list of objects).
NoValidStructure(text) ==
  LET data == _extract_json(text)
  IN IF data.kind # "object" THEN TRUE
     ELSE \/ data.obj.tips.kind # "list"
          \/ \A i \in DOMAIN data.obj.tips.items : data.obj.tips.items[i].kind # "object"
C8_ObserverParseFailsSoft ==
  ObserverActed =>
    /\ ~RaisedAt({"observer"})
    /\ NoValidStructure(observer_response) => observer_output = <<>>

\* C9: every window of the built timeline has start_seconds <= end_seconds
\* and, when death_seconds is set, start_seconds <= death_seconds <= end_seconds.
C9_WindowContainment ==
  TimelineBuilt =>
    \A j \in DOMAIN demo_rounds_timeline :
      LET r == demo_rounds_timeline[j]
      IN /\ r.start_seconds <= r.end_seconds
         /\ r.death_seconds # None =>
              (r.start_seconds <= r.death_seconds /\ r.death_seconds <= r.end_seconds)

\* C10: a round's death_seconds is the converted time (tick - video_start_tick)
\* / tickrate of a kill of that round whose victim is the POV player if the
\* dataset holds such a kill, and is unset if it holds none.
C10_SubjectExitTime ==
  TimelineBuilt =>
    \A j \in DOMAIN demo_rounds_timeline :
      LET data == filtered_replay_data
          rnd == data.rounds[j]
          video_start_tick == IF data.video_start_tick = None
                              THEN data.rounds[1].start_tick ELSE data.video_start_tick
          deaths == { k \in DOMAIN data.kills :
                        /\ data.pov_player # ""
                        /\ Lower(data.kills[k].victim) = Lower(data.pov_player)
                        /\ data.kills[k].round_num = rnd.round_num }
          death_seconds == demo_rounds_timeline[j].death_seconds
      IN IF deaths = {} THEN death_seconds = None
         ELSE /\ death_seconds # None
              /\ \E k \in deaths : death_seconds = data.kills[k].tick - video_start_tick

\* analyze, lines 89-112: the timeline analyze builds from a dataset when
\* round detection answers info
TimelineFor(data, info) ==
  LET filtered == IF info.detected
                  THEN filter_demo_data_by_rounds(data, info.first_round, info.last_round)
                  ELSE data
  IN IF Len(filtered.rounds) > 0
     THEN build_rounds_timeline_from_demo(filtered, filtered.pov_player)
     ELSE <<>>

\* C11: for a fixed dataset the rounds timeline that analyze builds (the one
\* the pre-filter reads and the result metadata carries) is the same for every
\* answer of the model endpoint, the round-detection answer included: the
\* timeline built in this run equals the one any other round-detection answer
\* would have produced from the same rounds and kills.
C11_TimelineIndependentOfModel ==
  TimelineBuilt =>
    \A info \in RoundInfos : TimelineFor(replay_data, info) = demo_rounds_timeline

\* ---- gateway claims
KeyIndexes == 0..(Len(gemini.api_keys) - 1)
AllCooling == \A k \in KeyIndexes : Cooling(gemini, k, now)
InvokeStep == calls' = calls + 1
ReplyStep == Len(sent') = Len(sent) + 1
AnalysisRequests == { i \in DOMAIN sent : sent[i].stage = "generate_content" }
Returned == gw_pc = "idle" /\ calls > 0

\* C12: when analyze_video is called while every key of the pool is cooling,
\* the call returns the failure for exhausted keys at once, sends no request
\* and leaves the cooldown table as it was.
C12_AllCoolingRefused ==
  [][(InvokeStep /\ AllCooling) =>
       /\ gw_pc' = "idle"
       /\ outcome' = VideoAnalysisResult("unavailable")
       /\ sent' = <<>>
       /\ gemini'._key_cooldowns = gemini._key_cooldowns]_vars

\* a call on a pool of two cooling keys has been refused
C12_Witness ==
  /\ Returned
  /\ calls = 2
  /\ Len(gemini.api_keys) >= 2
  /\ gemini.enabled
  /\ AllCooling
  /\ outcome = VideoAnalysisResult("unavailable")

\* C13: every key for which the endpoint sent a rate-limit signal
\* during the call has cooldown_until at least one cooldown period after the
\* signal, for every pool of one or more keys.
C13_RateLimitCoolsKey ==
  \A i \in DOMAIN sent :
    sent[i].signal = "rate_limit" =>
      gemini._key_cooldowns[sent[i].key] >= sent[i].at + KEY_COOLDOWN_SECONDS

\* C14 (as claimed): one analyze_video call sends at most two analysis
\* requests (generate_content), whatever the size of the pool.
C14_RetryOnce ==
  Cardinality(AnalysisRequests) <= 2

\* C14 (amended): one analyze_video call sends at most one analysis request
\* per key of the pool.
C14_OneAttemptPerKey ==
  Cardinality(AnalysisRequests) <= Len(gemini.api_keys)

\* a call on a pool of three keys has sent three analysis requests
C14_Witness ==
  /\ Len(gemini.api_keys) = 3
  /\ Cardinality(AnalysisRequests) = 3

\* C15: when the endpoint answers with an error that is not a rate-limit
\* signal, analyze_video returns the failure without another attempt, and the
\* cooldown table and the current key index stay as they were.
C15_OtherFailureFailsFast ==
  [][(ReplyStep /\ sent'[Len(sent')].signal \notin {"ok", "rate_limit"}) =>
       /\ gw_pc' = "idle"
       /\ ~outcome'.success
       /\ gemini'._key_cooldowns = gemini._key_cooldowns
       /\ gemini'._current_key_index = gemini._current_key_index]_vars

\* a step after which the call goes on to send a request with the current key
Selects == gw_pc' \in {"get_client", "request"} /\ gw_pc' # gw_pc

\* C16 (as claimed): the key a request is sent with is not cooling when it is
\* selected and is the first key in pool order that is not cooling.
C16_FirstFreeInPoolOrder ==
  [][Selects =>
       LET k == gemini'._current_key_index
       IN /\ ~Cooling(gemini', k, now)
          /\ \A j \in 0..(k - 1) : Cooling(gemini', j, now)]_vars

\* C16 (amended): the key a request is sent with is not cooling when it is
\* selected and is the first such key in cyclic pool order starting from the
\* key that was current before the selection.
C16_FirstFreeFromCurrent ==
  [][Selects =>
       LET n == Len(gemini.api_keys)
           k == gemini'._current_key_index
           d == (k - gemini._current_key_index + n) % n
       IN /\ ~Cooling(gemini', k, now)
          /\ \A i \in 0..(d - 1) :
               Cooling(gemini', (gemini._current_key_index + i) % n, now)]_vars

\* a request goes out with the second key although the first key's cooldown
\* has expired
C16_Witness ==
  /\ gw_pc = "request"
  /\ calls = 2
  /\ sent = <<>>
  /\ gemini._current_key_index = 1
  /\ gemini._key_cooldowns[0] > 0
  /\ ~Cooling(gemini, 0, now)

\* C17: no step of the provider lowers a key's cooldown_until.
C17_CooldownNeverDecreases ==
  [][\A k \in KeyIndexes : gemini'._key_cooldowns[k] >= gemini._key_cooldowns[k]]_vars

\* the first key, cooled in the first call (the second call started on the
\* second key), has been cooled again in the second call
C17_Witness ==
  /\ calls = 2
  /\ Len(gemini.api_keys) = 2
  /\ Len(sent) = 2
  /\ sent[1].key = 1
  /\ sent[2].key = 0
  /\ sent[2].signal = "rate_limit"
  /\ gemini._key_cooldowns[0] = sent[2].at + KEY_COOLDOWN_SECONDS

\* C18: the key a new analysis request selects is not one that was cooling in
\* the cooldown table when the request arrived: a key cooled while serving an
\* earlier request is skipped until its cooldown ends.
C18_CooldownIsProcessWide ==
  [][(analyses' = analyses + 1 /\ gw_pc' = "get_client") =>
       ~Cooling(gemini, gemini'._current_key_index, now)]_vars

\* ---- pipeline order and result
StageOrder == <<"timeline", "observer", "pre_filter", "validator">>
IsPrefix(s, t) == Len(s) <= Len(t) /\ \A i \in DOMAIN s : s[i] = t[i]

C20_SuccessfulRunReturns ==
  /\ ~RaisedAt({"finish"})
  /\ pc = "done" => (result.set /\ result.tips = final_output.tips
                       /\ result.summary_text = final_output.summary_text)

\* ---- failures
CallStages == {"observer_call", "validator_call"}
Last(s) == s[Len(s)]

\* C21 (as claimed): when the Observer's or the Validator's model call raises,
\* analyze ends in DONE with a result (the partial one, e.g. zero tips).
C21_StageFailureDegrades ==
  error.at \in CallStages => (pc = "done" /\ result.set)

\* C21 (amended): when the Observer's or the Validator's model call raises,
\* analyze ends by raising that error: it returns no result, runs no later
\* stage and does not run the failed stage again.
C21_StageFailurePropagates ==
  error.at \in CallStages =>
    /\ pc = "raised"
    /\ ~result.set
    /\ IsPrefix(stage_log, StageOrder)
    /\ Last(stage_log) = IF error.at = "observer_call" THEN "observer" ELSE "validator"

\* the Validator's model call has raised on an analysis whose pre-filter
\* passed a tip
C21_Witness ==
  /\ RaisedAt({"validator_call"})
  /\ Len(valid_tips) > 0

\* ---- the service
Terminal == {"complete", "error"}

\* C22: an analysis record goes from 'processing' to 'complete' or 'error'
\* and then keeps its status; an analysis whose task has ended is 'complete'
\* or 'error', and an 'error' record written for a failure that came out of
\* the pipeline carries a non-empty reason string.
C22_AnalysisEndsVisibly ==
  \A i \in Jobs :
    /\ tasks[i].pc = "ended" => records[i].status \in Terminal
    /\ records[i].status \in Terminal => tasks[i].pc = "ended"
    /\ (records[i].status = "error" /\ tasks[i].exc_at \in ModelCalls)
         => records[i].error \notin {"", "none"}

\* C23: while a pipeline waits for one of its model calls to return, the
\* task of another analysis that is under way can take steps on the event
\* loop.
C23_PipelinesDoNotBlock ==
  \A i, j \in Jobs :
    (i # j /\ tasks[i].pc \in ModelCalls /\ tasks[j].pc \notin {"absent", "ended"})
      => Runs(j)

\* ---- the dataset
\* C24: no step of the pipeline changes the dataset the caller passed in: no
\* key is added to it and no nested value (its summary) is modified.
C24_DatasetReadOnly ==
  [][replay_data' = replay_data]_vars

\* ---- order of tips
Ascending(tips) ==
  \A i, j \in DOMAIN tips :
    (i < j /\ tips[i].timestamp # None /\ tips[j].timestamp # None)
      => tips[i].timestamp <= tips[j].timestamp

\* C25: the verified tips that the Validator stage returns (and analyze copies
\* into its result) are in ascending order of timestamp, whatever order the
\* Validator response lists them in.
C25_VerifiedTipsOrdered ==
  final_output.set => Ascending(final_output.tips)

\* the tips of the Observer response in the order the response lists them
ListedTips ==
  LET data == _extract_json(observer_response)
  IN IF NotData(data) \/ data.kind # "object" THEN <<>>
     ELSE IF ~Iterates(data.obj.tips) THEN <<>>
     ELSE ObserverTipsLoop(LoopItems(data.obj.tips), 1, <<>>)
Perms(n) == { f \in [1..n -> 1..n] : \A i, j \in 1..n : i # j => f[i] # f[j] }
TimeOf(tip) == IF tip.timestamp = None THEN 0 ELSE tip.timestamp

\* C26: the tips the Observer stage returns are the tips of the response in
\* non-decreasing order of timestamp.video_seconds (a tip without a timestamp
\* counts as 0), and tips with equal timestamps keep the relative order they
\* have in the response.
C26_ObserverTipsSorted ==
  (pc = "verify" /\ observer_response # NoText) =>
    /\ Ascending(observer_output)
    /\ \E f \in Perms(Len(observer_output)) :
         /\ Len(ListedTips) = Len(observer_output)
         /\ \A i \in DOMAIN observer_output : observer_output[i] = ListedTips[f[i]]
         /\ \A i, j \in DOMAIN observer_output :
              i < j => /\ TimeOf(observer_output[i]) <= TimeOf(observer_output[j])
                       /\ TimeOf(observer_output[i]) = TimeOf(observer_output[j])
                            => f[i] < f[j]

\* the Observer returned two tips in another order than the response's
C26_Witness ==
  /\ pc = "verify"
  /\ observer_response # NoText
  /\ Len(observer_output) = 2
  /\ observer_output # ListedTips
  /\ observer_output[1].timestamp # None

\* ---- the summary
\* C27: the summary the Validator stage returns has between 100 and 300
\* characters, whatever summary the model response carries.
C27_SummaryLength ==
  final_output.set =>
    /\ DocumentedSummaryMin <= final_output.summary_text.len
    /\ final_output.summary_text.len <= DocumentedSummaryMax

\* ---- the continuous clock
\* a shown time m:ss is the game time divided by 1.5, to the second
ShowsVideoTime(shown, game_seconds) ==
  LET shown_seconds == shown.m * 60 + shown.ss
  IN /\ GameSpeedNum * shown_seconds <= GameSpeedDen * game_seconds
     /\ GameSpeedDen * game_seconds < GameSpeedNum * (shown_seconds + 1)

\* C28: every event time the AoE2 prompt context shows is the event's game
\* time divided by 1.5: an event at game time 90 s is shown at 1:00.
C28_GameClockConverted ==
  aoe2_prompt.built =>
    /\ aoe2_prompt.pov_feudal # NoDisplay
         => ShowsVideoTime(aoe2_prompt.pov_feudal, aoe2_replay_data.feudal_age)
    /\ aoe2_prompt.players_feudal # NoDisplay
         => ShowsVideoTime(aoe2_prompt.players_feudal, aoe2_replay_data.feudal_age)
    /\ aoe2_prompt.action # NoDisplay
         => ShowsVideoTime(aoe2_prompt.action, aoe2_replay_data.action_time)

\* ---- invocations that share a pool
\* analyze_video has no await between is_available and its return, so the
\* invocations that share a provider on the event loop interleave call by
\* call, while the clock runs
\* C29: in the second of two invocations on one provider, as in the first, a
\* rate-limit signal for the key a request was sent with puts that key into
\* cooldown for a cooldown period and changes the cooldown of no other key,
\* and no step lowers a cooldown an earlier invocation wrote.
C29_SynchronisedCooldownWrites ==
  [][/\ (ReplyStep /\ calls = 2 /\ sent'[Len(sent')].signal = "rate_limit") =>
          LET k == sent'[Len(sent')].key
          IN /\ gemini'._key_cooldowns[k] >= now + KEY_COOLDOWN_SECONDS
             /\ \A j \in KeyIndexes \ {k} :
                  gemini'._key_cooldowns[j] = gemini._key_cooldowns[j]
     /\ \A k \in KeyIndexes : gemini'._key_cooldowns[k] >= gemini._key_cooldowns[k]]_vars

\* C30: the two renderings of the observation windows agree: for every
\* round, the start, end and POV death time of the prompt's round timeline
\* equal start_seconds, end_seconds and death_seconds of the window that
\* build_rounds_timeline_from_demo produced and the pre-filter enforces.
C30_WindowRenderingsAgree ==
  (round_timeline.built /\ filtered_replay_data.pov_player # "") =>
    /\ Len(round_timeline.timeline) = Len(demo_rounds_timeline)
    /\ \A j \in DOMAIN demo_rounds_timeline :
         LET shown == round_timeline.timeline[j]
             window == demo_rounds_timeline[j]
         IN /\ shown.round = window.round
            /\ shown.start_seconds = window.start_seconds
            /\ shown.end_seconds = window.end_seconds
            /\ shown.death_seconds = window.death_seconds

====
